---- MODULE Spec2Model ----
(***************************************************************************)
(* Model of the hits-and-blows terminal game of src/src/main.rs:           *)
(* main (the level prompt), Game::new (the secret), Game::play (the round  *)
(* loop), Game::start_input_thread (the keystroke reader) and              *)
(* Game::check_guess (the scorer).                                         *)
(*                                                                         *)
(* Characters are one-character strings.  A String is a sequence of        *)
(* characters.  A termion Key is a pair <<kind, char>>.                    *)
(***************************************************************************)
EXTENDS Integers, Sequences, FiniteSets, TLC

VARIABLES
    pc,              \* position of the main thread (main, Game::new, Game::play)
    level,           \* Game.level, the level parsed by main
    digits,          \* Game::new: digits.iter().take(level), the generated digits
    secret_number,   \* Game.secret_number
    stop_flag,       \* the Arc<Mutex<bool>> shared by play and the input thread
    chan,            \* the mpsc channel: characters sent and not yet received
    entered_chars,   \* play: the entry buffer
    elapsed,         \* play: start_time.elapsed().as_secs()
    remaining_time,  \* play: the remaining time computed at the top of the loop
    attempts,        \* play: the attempt counter
    hits,            \* play: hits of the last check_guess
    blows,           \* play: blows of the last check_guess
    raw,             \* the terminal is in raw mode (the RawTerminal is alive)
    result,          \* what Game::new / Game::play returned to main
    tpc,             \* position of the input thread
    key,             \* input thread: the item stdin.keys() yielded
    wrong_guesses    \* history: complete guesses that check_guess scored below level

vars == << pc, level, digits, secret_number, stop_flag, chan, entered_chars,
           elapsed, remaining_time, attempts, hits, blows, raw, result, tpc, key,
           wrong_guesses >>

----------------------------------------------------------------------------
(* Bounds of the model and constants of the program *)

COUNTDOWN_SECONDS == 10

MinLevel == 3

MaxLevel == 9

\* the clock is observed up to this many whole seconds after the anchor
MaxElapsed == 11

\* whole seconds between two observations of the clock
ClockStep == 5

\* characters in flight in the channel
MaxChan == 1

\* complete guesses the player types in one round
MaxGuesses == 2

\* levels typed at the prompt when only Game::new and check_guess are exercised
MaxLevelInput == 11

Min(a, b) == IF a < b THEN a ELSE b

----------------------------------------------------------------------------
(* Characters, strings, keys *)

DigitChars == <<"0", "1", "2", "3", "4", "5", "6", "7", "8", "9">>

\* u32::to_string of one digit: the character of digit d
DigitToString(d) == DigitChars[d + 1]

\* char::is_ascii_digit
is_ascii_digit(c) == \E d \in 0..9 : DigitChars[d + 1] = c

\* char::to_digit(10).unwrap(): the digit of a decimal character
to_digit(c) == CHOOSE d \in 0..9 : DigitChars[d + 1] = c

\* str::parse::<u32> of a string of decimal characters
RECURSIVE ParseU32(_)
ParseU32(s) ==
    IF Len(s) = 0 THEN 0
    ELSE 10 * ParseU32(SubSeq(s, 1, Len(s) - 1)) + to_digit(s[Len(s)])

\* u32::to_string: the decimal characters of n, without leading zeros
RECURSIVE U32ToString(_)
U32ToString(n) ==
    IF n < 10 THEN << DigitToString(n) >>
    ELSE U32ToString(n \div 10) \o << DigitToString(n % 10) >>

\* Game::key_to_char: Some(c) for Key::Char(c), None for every other key
key_to_char(k) == IF k[1] = "Char" THEN << k[2] >> ELSE << >>

----------------------------------------------------------------------------
(* Game::new *)

\* Vec::insert(i, x), i counted from 0
Insert(s, i, x) == SubSeq(s, 1, i) \o << x >> \o SubSeq(s, i + 1, Len(s))

\* Iterator::take(n)
Take(s, n) == SubSeq(s, 1, Min(n, Len(s)))

\* outcomes of digits.shuffle(&mut rng) that the model explores
Shuffles ==
    { << 1, 2, 3, 4, 5, 6, 7, 8, 9 >>,
      << 2, 1, 3, 4, 5, 6, 7, 8, 9 >>,
      << 9, 8, 7, 6, 5, 4, 3, 2, 1 >> }

\* mutant: the level check accepts 10, as the prompt's text suggests
InvalidLevelUpToTen(l) == l < MinLevel \/ l > MaxLevel + 1

\* the level check of Game::new
InvalidLevel(l) == l < MinLevel \/ l > MaxLevel

\* digits.iter().take(level) after the insertion of 0 at zero_index
TakenDigits(shuffled, zero_index, l) == Take(Insert(shuffled, zero_index, 0), l)

\* number_str: the taken digits, each converted by to_string, concatenated
NumberStr(ds) == [ i \in 1..Len(ds) |-> DigitToString(ds[i]) ]

----------------------------------------------------------------------------
(* Game::check_guess *)

\* secret_digits: the digits of secret_number.to_string()
SecretDigits(n) ==
    LET str == U32ToString(n) IN [ i \in 1..Len(str) |-> to_digit(str[i]) ]

\* guess_digits: the digits of the entered characters
GuessDigits(guess) == [ i \in 1..Len(guess) |-> to_digit(guess[i]) ]

\* the first loop: positions of the secret whose digit equals the guess's
HitPositions(sd, gd) == { i \in 1..Len(sd) : sd[i] = gd[i] }

\* matched[d] after the first loop
Matched(sd, gd) == { sd[i] : i \in HitPositions(sd, gd) }

\* secret_digits.contains(&d)
Contains(sd, d) == \E i \in 1..Len(sd) : sd[i] = d

\* the second loop: positions of the guess that score a blow
BlowPositions(sd, gd) ==
    { j \in 1..Len(gd) : gd[j] \notin Matched(sd, gd) /\ Contains(sd, gd[j]) }

\* check_guess: the pair (hits, blows)
check_guess(n, guess) ==
    LET sd == SecretDigits(n)
        gd == GuessDigits(guess)
    IN  << Cardinality(HitPositions(sd, gd)), Cardinality(BlowPositions(sd, gd)) >>

----------------------------------------------------------------------------
(* The environment: what is typed *)

\* lines typed at the level prompt
PromptLines ==
    { << "q" >>, << "x" >>, << "0" >>, << "2" >>, << "3" >>, << "1", "0" >>, << "1", "1" >> }

\* keys pressed during the round
Keys ==
    { << "Char", "0" >>, << "Char", "1" >>, << "Char", "2" >>,
      << "Char", "a" >>, << "Left", "" >> }

\* the Err item of stdin.keys()
KeyErr == << "Err", "" >>

NoKey == << "None", "" >>

\* mutant: every character key is forwarded
IsCharKey(k) == key_to_char(k) # << >>

\* the key is a character key of a decimal digit
IsDigitKey(k) == key_to_char(k) # << >> /\ is_ascii_digit(key_to_char(k)[1])

\* digits typed so far in the round and not dropped
TypedDigits ==
    attempts * level + Len(entered_chars) + Len(chan)
        + (IF tpc \in {"flag", "forward"} /\ IsDigitKey(key) THEN 1 ELSE 0)

----------------------------------------------------------------------------
(* Initial state *)

Init ==
    /\ pc = "prompt"
    /\ level = 0
    /\ digits = << >>
    /\ secret_number = 0
    /\ stop_flag = FALSE
    /\ chan = << >>
    /\ entered_chars = << >>
    /\ elapsed = 0
    /\ remaining_time = 0
    /\ attempts = 0
    /\ hits = 0
    /\ blows = 0
    /\ raw = FALSE
    /\ result = "none"
    /\ tpc = "unspawned"
    /\ key = NoKey
    /\ wrong_guesses = 0

----------------------------------------------------------------------------
(* main and Game::new *)

\* str::parse::<usize> succeeds on a non-empty string of decimal characters
ParsesAsLevel(line) == Len(line) > 0 /\ \A i \in 1..Len(line) : is_ascii_digit(line[i])

\* main: the prompt, 'q', and the parse of the level
MainPrompt ==
    /\ pc = "prompt"
    /\ \E line \in PromptLines :
          IF line = << "q" >> \/ ~ParsesAsLevel(line)
          THEN /\ pc' = "exit"
               /\ level' = level
          ELSE /\ level' = ParseU32(line)
               /\ pc' = "new"
    /\ UNCHANGED wrong_guesses
    /\ UNCHANGED << digits, secret_number, stop_flag, chan, entered_chars, elapsed,
                    remaining_time, attempts, hits, blows, raw, result, tpc, key >>

\* Game::new(level), and main's Err arm
GameNew ==
    /\ pc = "new"
    /\ IF InvalidLevel(level)
       THEN /\ result' = "Err"
            /\ pc' = "exit"
            /\ UNCHANGED << digits, secret_number >>
       ELSE /\ \E shuffled \in Shuffles, zero_index \in 0..9 :
                  /\ digits' = TakenDigits(shuffled, zero_index, level)
                  /\ secret_number' = ParseU32(NumberStr(digits'))
            /\ pc' = "play"
            /\ result' = result
    /\ UNCHANGED wrong_guesses
    /\ UNCHANGED << level, stop_flag, chan, entered_chars, elapsed, remaining_time,
                    attempts, hits, blows, raw, tpc, key >>

----------------------------------------------------------------------------
(* Game::play *)

\* mutant: a plain subtraction in place of saturating_sub
RemainingNoSaturation(secs) == COUNTDOWN_SECONDS - secs

\* COUNTDOWN_SECONDS.saturating_sub(start_time.elapsed().as_secs())
Remaining(secs) == IF secs >= COUNTDOWN_SECONDS THEN 0 ELSE COUNTDOWN_SECONDS - secs

\* positions of play inside the round loop before a terminal outcome is chosen
LoopPcs == {"loop", "recv", "render", "full", "miss", "sleep"}

\* positions of play between the choice of a terminal outcome and the return
EndPcs == {"win", "win_ret", "lose", "lose_ret"}

\* play, before the loop: channel, stop flag, input thread, buffer, clock, raw mode
PlayStart ==
    /\ pc = "play"
    /\ chan' = << >>
    /\ stop_flag' = FALSE
    /\ tpc' = "keys"
    /\ entered_chars' = << >>
    /\ elapsed' = 0
    /\ raw' = TRUE
    /\ attempts' = 0
    /\ wrong_guesses' = 0
    /\ pc' = "loop"
    /\ UNCHANGED << level, digits, secret_number, remaining_time, hits, blows, result, key >>

\* mutant: the channel is polled before the time is tested
LoopTimeDrainFirst ==
    /\ pc = "loop"
    /\ remaining_time' = Remaining(elapsed)
    /\ IF chan # << >>
       THEN /\ entered_chars' = Append(entered_chars, Head(chan))
            /\ chan' = Tail(chan)
       ELSE UNCHANGED << entered_chars, chan >>
    /\ pc' = IF remaining_time' = 0 THEN "lose" ELSE "render"
    /\ UNCHANGED << level, digits, secret_number, stop_flag, elapsed,
                    attempts, hits, blows, raw, result, tpc, key, wrong_guesses >>

\* the top of the loop: the remaining time and the test for 0
LoopTime ==
    /\ pc = "loop"
    /\ remaining_time' = Remaining(elapsed)
    /\ pc' = IF remaining_time' = 0 THEN "lose" ELSE "recv"
    /\ UNCHANGED wrong_guesses
    /\ UNCHANGED << level, digits, secret_number, stop_flag, chan, entered_chars, elapsed,
                    attempts, hits, blows, raw, result, tpc, key >>

\* timeout: flush, then *stop_flag.lock().unwrap() = true
TimeoutStop ==
    /\ pc = "lose"
    /\ stop_flag' = TRUE
    /\ pc' = "lose_ret"
    /\ UNCHANGED wrong_guesses
    /\ UNCHANGED << level, digits, secret_number, chan, entered_chars, elapsed,
                    remaining_time, attempts, hits, blows, raw, result, tpc, key >>

\* timeout: return Ok(GameResult::Lose); stdout and input_rx are dropped
TimeoutReturn ==
    /\ pc = "lose_ret"
    /\ result' = "Lose"
    /\ raw' = FALSE
    /\ chan' = << >>
    /\ pc' = "returned"
    /\ UNCHANGED wrong_guesses
    /\ UNCHANGED << level, digits, secret_number, stop_flag, entered_chars, elapsed,
                    remaining_time, attempts, hits, blows, tpc, key >>

\* mutant: a blocking recv() in place of try_recv()
TryRecvBlocking ==
    /\ pc = "recv"
    /\ chan # << >>
    /\ entered_chars' = Append(entered_chars, Head(chan))
    /\ chan' = Tail(chan)
    /\ pc' = "render"
    /\ UNCHANGED << level, digits, secret_number, stop_flag, elapsed, remaining_time,
                    attempts, hits, blows, raw, result, tpc, key, wrong_guesses >>

\* mutant: try_recv().unwrap() on an empty channel whose sender is gone panics
TryRecvUnwrapsDisconnected ==
    /\ pc = "recv"
    /\ IF chan # << >>
       THEN /\ entered_chars' = Append(entered_chars, Head(chan))
            /\ chan' = Tail(chan)
            /\ pc' = "render"
            /\ result' = result
       ELSE /\ UNCHANGED << entered_chars, chan >>
            /\ pc' = IF tpc = "done" THEN "exit" ELSE "render"
            /\ result' = IF tpc = "done" THEN "panic" ELSE result
    /\ UNCHANGED << level, digits, secret_number, stop_flag, elapsed, remaining_time,
                    attempts, hits, blows, raw, tpc, key, wrong_guesses >>

\* if let Ok(key) = input_rx.try_recv() { entered_chars.push(key) }
TryRecv ==
    /\ pc = "recv"
    /\ IF chan # << >>
       THEN /\ entered_chars' = Append(entered_chars, Head(chan))
            /\ chan' = Tail(chan)
       ELSE UNCHANGED << entered_chars, chan >>
    /\ pc' = "render"
    /\ UNCHANGED wrong_guesses
    /\ UNCHANGED << level, digits, secret_number, stop_flag, elapsed, remaining_time,
                    attempts, hits, blows, raw, result, tpc, key >>

\* the status line
Render ==
    /\ pc = "render"
    /\ pc' = "full"
    /\ UNCHANGED wrong_guesses
    /\ UNCHANGED << level, digits, secret_number, stop_flag, chan, entered_chars, elapsed,
                    remaining_time, attempts, hits, blows, raw, result, tpc, key >>

\* if entered_chars.len() == self.level: check_guess and the test hits == level
CheckFull ==
    /\ pc = "full"
    /\ IF Len(entered_chars) = level
       THEN /\ hits' = check_guess(secret_number, entered_chars)[1]
            /\ blows' = check_guess(secret_number, entered_chars)[2]
            /\ pc' = IF hits' = level THEN "win" ELSE "miss"
            /\ wrong_guesses' = IF hits' = level THEN wrong_guesses ELSE wrong_guesses + 1
       ELSE /\ pc' = "sleep"
            /\ UNCHANGED << hits, blows, wrong_guesses >>
    /\ UNCHANGED << level, digits, secret_number, stop_flag, chan, entered_chars, elapsed,
                    remaining_time, attempts, raw, result, tpc, key >>

\* mutant: the winning guess is counted as an attempt too
WinStopCounting ==
    /\ pc = "win"
    /\ stop_flag' = TRUE
    /\ attempts' = attempts + 1
    /\ pc' = "win_ret"
    /\ UNCHANGED << level, digits, secret_number, chan, entered_chars, elapsed,
                    remaining_time, hits, blows, raw, result, tpc, key, wrong_guesses >>

\* mutant: the win path forgets the stop flag
WinStopNoFlag ==
    /\ pc = "win"
    /\ pc' = "win_ret"
    /\ UNCHANGED << level, digits, secret_number, stop_flag, chan, entered_chars, elapsed,
                    remaining_time, attempts, hits, blows, raw, result, tpc, key,
                    wrong_guesses >>

\* win: the message with the attempt count, then the stop flag
WinStop ==
    /\ pc = "win"
    /\ stop_flag' = TRUE
    /\ pc' = "win_ret"
    /\ UNCHANGED wrong_guesses
    /\ UNCHANGED << level, digits, secret_number, chan, entered_chars, elapsed,
                    remaining_time, attempts, hits, blows, raw, result, tpc, key >>

\* win: return Ok(GameResult::Won); stdout and input_rx are dropped
WinReturn ==
    /\ pc = "win_ret"
    /\ result' = "Won"
    /\ raw' = FALSE
    /\ chan' = << >>
    /\ pc' = "returned"
    /\ UNCHANGED wrong_guesses
    /\ UNCHANGED << level, digits, secret_number, stop_flag, entered_chars, elapsed,
                    remaining_time, attempts, hits, blows, tpc, key >>

\* mutant: the else arm forgets start_time = Instant::now()
MissNoReanchor ==
    /\ pc = "miss"
    /\ attempts' = attempts + 1
    /\ entered_chars' = << >>
    /\ hits' = 0
    /\ blows' = 0
    /\ pc' = "sleep"
    /\ UNCHANGED << level, digits, secret_number, stop_flag, chan, elapsed, remaining_time,
                    raw, result, tpc, key, wrong_guesses >>

\* mutant: the else arm forgets entered_chars.clear()
MissKeepsBuffer ==
    /\ pc = "miss"
    /\ attempts' = attempts + 1
    /\ elapsed' = 0
    /\ hits' = 0
    /\ blows' = 0
    /\ pc' = "sleep"
    /\ UNCHANGED << level, digits, secret_number, stop_flag, chan, entered_chars,
                    remaining_time, raw, result, tpc, key, wrong_guesses >>

\* mutant: the else arm also empties the channel
MissDrainsChannel ==
    /\ pc = "miss"
    /\ attempts' = attempts + 1
    /\ elapsed' = 0
    /\ entered_chars' = << >>
    /\ chan' = << >>
    /\ hits' = 0
    /\ blows' = 0
    /\ pc' = "sleep"
    /\ UNCHANGED << level, digits, secret_number, stop_flag, remaining_time,
                    raw, result, tpc, key, wrong_guesses >>

\* the else arm: attempts += 1, the HIT/BLOW line, the clock, the buffer
Miss ==
    /\ pc = "miss"
    /\ attempts' = attempts + 1
    /\ elapsed' = 0
    /\ entered_chars' = << >>
    /\ hits' = 0
    /\ blows' = 0
    /\ pc' = "sleep"
    /\ UNCHANGED wrong_guesses
    /\ UNCHANGED << level, digits, secret_number, stop_flag, chan, remaining_time,
                    raw, result, tpc, key >>

\* thread::sleep(Duration::from_millis(50)), and back to the top of the loop
Sleep ==
    /\ pc = "sleep"
    /\ pc' = "loop"
    /\ UNCHANGED wrong_guesses
    /\ UNCHANGED << level, digits, secret_number, stop_flag, chan, entered_chars, elapsed,
                    remaining_time, attempts, hits, blows, raw, result, tpc, key >>

\* main: the message for the result of play, and the end of the process
MainFinish ==
    /\ pc = "returned"
    /\ pc' = "exit"
    /\ UNCHANGED wrong_guesses
    /\ UNCHANGED << level, digits, secret_number, stop_flag, chan, entered_chars, elapsed,
                    remaining_time, attempts, hits, blows, raw, result, tpc, key >>

\* time passes on the clock anchored at start_time
Clock ==
    /\ pc \in LoopPcs \cup EndPcs
    /\ elapsed < MaxElapsed
    /\ elapsed' = elapsed + ClockStep
    /\ UNCHANGED wrong_guesses
    /\ UNCHANGED << pc, level, digits, secret_number, stop_flag, chan, entered_chars,
                    remaining_time, attempts, hits, blows, raw, result, tpc, key >>

----------------------------------------------------------------------------
(* Game::start_input_thread *)

\* the receiver input_rx is alive while play has not returned
ReceiverAlive == pc \in LoopPcs \cup EndPcs

\* stdin.keys() yields an item: a key or an error
ThreadKeys ==
    /\ tpc = "keys"
    /\ pc # "exit"
    /\ \E k \in Keys \cup {KeyErr} :
          /\ IsDigitKey(k) => (TypedDigits < MaxGuesses * level /\ Len(chan) < MaxChan)
          /\ key' = k
    /\ tpc' = "flag"
    /\ UNCHANGED wrong_guesses
    /\ UNCHANGED << pc, level, digits, secret_number, stop_flag, chan, entered_chars,
                    elapsed, remaining_time, attempts, hits, blows, raw, result >>

\* stdin.keys() ends: end of the input stream
ThreadEof ==
    /\ tpc = "keys"
    /\ pc # "exit"
    /\ tpc' = "done"
    /\ UNCHANGED wrong_guesses
    /\ UNCHANGED << pc, level, digits, secret_number, stop_flag, chan, entered_chars,
                    elapsed, remaining_time, attempts, hits, blows, raw, result, key >>

\* mutant: the input thread does not look at the stop flag
ThreadCheckStopIgnoresFlag ==
    /\ tpc = "flag"
    /\ pc # "exit"
    /\ tpc' = "forward"
    /\ UNCHANGED << pc, level, digits, secret_number, stop_flag, chan, entered_chars,
                    elapsed, remaining_time, attempts, hits, blows, raw, result, key,
                    wrong_guesses >>

\* if *thread_stop_flag.lock().unwrap() { break }
ThreadCheckStop ==
    /\ tpc = "flag"
    /\ pc # "exit"
    /\ IF stop_flag
       THEN /\ tpc' = "done"
            /\ key' = NoKey
       ELSE /\ tpc' = "forward"
            /\ key' = key
    /\ UNCHANGED wrong_guesses
    /\ UNCHANGED << pc, level, digits, secret_number, stop_flag, chan, entered_chars,
                    elapsed, remaining_time, attempts, hits, blows, raw, result >>

\* the body after the flag test: Err breaks, a digit character is sent
ThreadForward ==
    /\ tpc = "forward"
    /\ pc # "exit"
    /\ IF key = KeyErr
       THEN /\ tpc' = "done"
            /\ chan' = chan
       ELSE /\ tpc' = "keys"
            /\ chan' = IF IsDigitKey(key) /\ ReceiverAlive
                       THEN Append(chan, key_to_char(key)[1])
                       ELSE chan
    /\ key' = NoKey
    /\ UNCHANGED wrong_guesses
    /\ UNCHANGED << pc, level, digits, secret_number, stop_flag, entered_chars,
                    elapsed, remaining_time, attempts, hits, blows, raw, result >>

----------------------------------------------------------------------------
(* The program *)

Next ==
    \/ MainPrompt
    \/ GameNew
    \/ PlayStart
    \/ LoopTime
    \/ TimeoutStop
    \/ TimeoutReturn
    \/ TryRecv
    \/ Render
    \/ CheckFull
    \/ WinStop
    \/ WinReturn
    \/ Miss
    \/ Sleep
    \/ MainFinish
    \/ Clock
    \/ ThreadKeys
    \/ ThreadEof
    \/ ThreadCheckStop
    \/ ThreadForward

Spec == Init /\ [][Next]_vars

----------------------------------------------------------------------------
(* The program under fair scheduling: the main thread keeps running and    *)
(* time keeps passing.  Nothing is assumed of the input thread, which may  *)
(* stay blocked in its keystroke read for ever.                            *)

\* a step of the round loop of play
LoopStep ==
    \/ LoopTime
    \/ TimeoutStop
    \/ TimeoutReturn
    \/ TryRecv
    \/ Render
    \/ CheckFull
    \/ WinStop
    \/ WinReturn
    \/ Miss
    \/ Sleep

\* the secrets of the rounds checked under fairness: level 3, the digits in
\* order, 0 inserted at index 0 or 1
RoundZeroIndexes == {0, 1}

\* the state in which Game::new(3) has returned Ok
InitRound ==
    /\ pc = "play"
    /\ level = MinLevel
    /\ \E zero_index \in RoundZeroIndexes :
          digits = TakenDigits(<< 1, 2, 3, 4, 5, 6, 7, 8, 9 >>, zero_index, MinLevel)
    /\ secret_number = ParseU32(NumberStr(digits))
    /\ stop_flag = FALSE
    /\ chan = << >>
    /\ entered_chars = << >>
    /\ elapsed = 0
    /\ remaining_time = 0
    /\ attempts = 0
    /\ hits = 0
    /\ blows = 0
    /\ raw = FALSE
    /\ result = "none"
    /\ tpc = "unspawned"
    /\ key = NoKey
    /\ wrong_guesses = 0

NextRound ==
    \/ PlayStart
    \/ LoopStep
    \/ MainFinish
    \/ Clock
    \/ ThreadKeys
    \/ ThreadEof
    \/ ThreadCheckStop
    \/ ThreadForward

FairSpec == InitRound /\ [][NextRound]_vars /\ WF_vars(LoopStep) /\ WF_vars(Clock)

----------------------------------------------------------------------------
(* The terminal fails: every terminal call of play is followed by unwrap(), *)
(* so a failed call panics on the main thread and the process ends.         *)

\* stdout().into_raw_mode().unwrap() panics; the input thread was spawned before
RawModeFails ==
    /\ pc = "play"
    /\ chan' = << >>
    /\ stop_flag' = FALSE
    /\ tpc' = "keys"
    /\ entered_chars' = << >>
    /\ elapsed' = 0
    /\ result' = "panic"
    /\ pc' = "exit"
    /\ UNCHANGED << level, digits, secret_number, remaining_time, attempts, hits, blows,
                    raw, key, wrong_guesses >>

\* positions of play whose next statement is write!(..).unwrap() or flush().unwrap()
WritePcs == {"render", "lose", "win", "miss"}

\* a write or flush fails and its unwrap() panics; unwinding drops the RawTerminal
WriteFails ==
    /\ pc \in WritePcs
    /\ result' = "panic"
    /\ raw' = FALSE
    /\ chan' = << >>
    /\ pc' = "exit"
    /\ UNCHANGED << level, digits, secret_number, stop_flag, entered_chars, elapsed,
                    remaining_time, attempts, hits, blows, tpc, key, wrong_guesses >>

\* the exit status of the process: 0 when main returns, 101 when it panics
ExitStatus == IF result = "panic" THEN 101 ELSE 0

NextIo == Next \/ RawModeFails \/ WriteFails

\* the program on a terminal whose calls may fail
SpecIo == Init /\ [][NextIo]_vars

----------------------------------------------------------------------------
(* Game::new followed by check_guess on a guess, without the round loop:    *)
(* every level typed at the prompt, every zero_index, guesses derived from  *)
(* the generated digits.                                                    *)

Reverse(s) == [ i \in 1..Len(s) |-> s[Len(s) + 1 - i] ]

\* guesses of Len(ds) digit characters tried against the secret generated as ds
GuessesFor(ds) ==
    LET str == NumberStr(ds)
        n == Len(ds)
    IN  {str, Reverse(str)}
        \cup { [ str EXCEPT ![i] = DigitToString(d) ] : i \in 1..n, d \in 0..9 }
        \cup { [ str EXCEPT ![i] = str[j], ![j] = str[i] ] : i \in 1..n, j \in 1..n }
        \cup { [ i \in 1..n |-> str[(i % n) + 1] ] }
        \cup { [ i \in 1..n |-> DigitToString(d) ] : d \in 0..9 }

InitNew ==
    /\ pc = "new"
    /\ level \in 0..MaxLevelInput
    /\ digits = << >>
    /\ secret_number = 0
    /\ stop_flag = FALSE
    /\ chan = << >>
    /\ entered_chars = << >>
    /\ elapsed = 0
    /\ remaining_time = 0
    /\ attempts = 0
    /\ hits = 0
    /\ blows = 0
    /\ raw = FALSE
    /\ result = "none"
    /\ tpc = "unspawned"
    /\ key = NoKey
    /\ wrong_guesses = 0

\* self.check_guess(&guess) on a game that Game::new returned
ScoreGuess ==
    /\ pc = "play"
    /\ \E guess \in GuessesFor(digits) :
          /\ entered_chars' = guess
          /\ hits' = check_guess(secret_number, guess)[1]
          /\ blows' = check_guess(secret_number, guess)[2]
    /\ pc' = "scored"
    /\ UNCHANGED << level, digits, secret_number, stop_flag, chan, elapsed, remaining_time,
                    attempts, raw, result, tpc, key, wrong_guesses >>

NextNew == GameNew \/ ScoreGuess

SpecNew == InitNew /\ [][NextNew]_vars

----------------------------------------------------------------------------
(* Properties *)

Distinct(s) == \A i, j \in 1..Len(s) : i # j => s[i] # s[j]

\* a game exists: Game::new returned Ok
GameBuilt == pc \notin {"prompt", "new"} /\ result # "Err" /\ digits # << >>

\* the digits Game::new takes are level pairwise distinct digits of 0..9
GeneratedDigitsOk ==
    GameBuilt => /\ Len(digits) = level
                 /\ Distinct(digits)
                 /\ \A i \in 1..Len(digits) : digits[i] \in 0..9

\* C1: the secret that Game::new stores, as check_guess decodes it, is a
\* sequence of exactly level decimal digits, pairwise distinct, each in 0..9.
C1_SecretHasLevelDigits ==
    GameBuilt =>
        LET sd == SecretDigits(secret_number)
        IN  /\ Len(sd) = level
            /\ Distinct(sd)
            /\ \A i \in 1..Len(sd) : sd[i] \in 0..9

\* what holds of the code: the decoded secret is the generated digits without
\* a leading 0, so it has level digits unless 0 was inserted at index 0
C1_DecodedDropsLeadingZero ==
    GameBuilt =>
        LET sd == SecretDigits(secret_number)
        IN  IF digits[1] = 0 THEN sd = SubSeq(digits, 2, Len(digits)) ELSE sd = digits

\* a guess has been scored against the generated secret
Scored == pc \in {"scored", "win", "miss"}

\* C2: for a secret of level distinct digits and a guess of level digits,
\* hits + blows <= level, and hits = level exactly when the guess equals the
\* secret position by position.
C2_HitsBlowsBound ==
    Scored =>
        /\ hits + blows <= level
        /\ (hits = level) <=> (GuessDigits(entered_chars) = digits)

\* C2 for the secrets without a leading 0
C2_WithoutLeadingZero == (Scored /\ digits[1] # 0) => C2_HitsBlowsBound

\* the positions where the guess equals the secret
SpecHits(S, G) == { i \in 1..Len(S) : S[i] = G[i] }

\* the positions of the guess whose digit is in the secret elsewhere, and
\* was not scored as a hit at its own position in the secret
SpecBlows(S, G) ==
    { i \in 1..Len(G) :
        /\ S[i] # G[i]
        /\ \E j \in 1..Len(S) : S[j] = G[i] /\ S[j] # G[j] }

\* C3: hits is the number of positions where secret and guess agree, and
\* blows the number of positions whose guess digit differs from the secret's,
\* occurs in the secret, and was not scored as a hit at its own position.
C3_HitsBlowsDefinition ==
    Scored =>
        /\ hits = Cardinality(SpecHits(digits, GuessDigits(entered_chars)))
        /\ blows = Cardinality(SpecBlows(digits, GuessDigits(entered_chars)))

\* C3 for the secrets without a leading 0
C3_WithoutLeadingZero == (Scored /\ digits[1] # 0) => C3_HitsBlowsDefinition

\* C4: scoring the reversal of the secret, when it differs from the secret,
\* gives hits + blows = level.
C4_ReverseScoresLevel ==
    (Scored /\ GuessDigits(entered_chars) = Reverse(digits) /\ Reverse(digits) # digits)
        => hits + blows = level

\* C4 for the secrets without a leading 0
C4_WithoutLeadingZero == (Scored /\ digits[1] # 0) => C4_ReverseScoresLevel

\* C5: a full buffer wins exactly when it equals the generated secret digit by
\* digit: play goes to the win path in that iteration, and returns Won in no
\* other situation.
C5_WonIffSecretEntered ==
    /\ (pc \in {"win", "miss"}) =>
           ((pc = "win") <=> (GuessDigits(entered_chars) = digits))
    /\ (result = "Won") => (GuessDigits(entered_chars) = digits)

\* C5 for the secrets without a leading 0
C5_WithoutLeadingZero == (GameBuilt /\ digits[1] # 0) => C5_WonIffSecretEntered

\* the half of C5 that holds of every secret: Won only for the secret itself
C5_NeverWonOtherwise ==
    (pc \in {"win", "win_ret"} \/ result = "Won") => (GuessDigits(entered_chars) = digits)

\* C6: the attempt counter starts at 0, grows by exactly 1 on each complete
\* guess scored as incorrect and changes at no other time, so the count
\* reported on a win is the number of earlier incorrect complete guesses.
C6_AttemptsCountWrongGuesses ==
    /\ []((pc \in {"win", "win_ret"} \/ result = "Won") => attempts = wrong_guesses)
    /\ [][(pc = "play" /\ pc' = "loop") => attempts' = 0]_vars
    /\ [][(pc = "miss" /\ pc' # "miss") => attempts' = attempts + 1]_vars
    /\ [][(pc # "play" /\ attempts' # attempts) => (pc = "miss" /\ pc' # "miss")]_vars

\* C6 witness: a round won after one incorrect complete guess
C6_Witness == result = "Won" /\ attempts = 1 /\ wrong_guesses = 1

\* C7: an iteration that finds 10 or more whole seconds elapsed computes a
\* remaining time of 0 and takes the timeout path, which sets the stop flag
\* and then returns Lose.
C7_TimeoutLoses ==
    /\ [][(pc = "loop" /\ pc' # "loop" /\ elapsed >= 10)
              => (remaining_time' = 0 /\ pc' = "lose")]_vars
    /\ [][(pc = "loop" /\ pc' # "loop" /\ remaining_time' = 0) => pc' = "lose"]_vars
    /\ [][(pc = "lose" /\ pc' # "lose") => (stop_flag' /\ pc' = "lose_ret")]_vars
    /\ [][(pc = "lose_ret" /\ pc' # "lose_ret")
              => (stop_flag /\ result' = "Lose" /\ pc' = "returned")]_vars
    /\ [](result = "Lose" => stop_flag)

\* C7 witness: play returned Lose after more than 10 seconds, flag set
C7_Witness == result = "Lose" /\ stop_flag /\ remaining_time = 0 /\ elapsed > 10

\* C8: the stop flag is false until a terminal outcome, is changed only by a
\* step of the round loop on its win or timeout path, only from false to
\* true, is never set back, and is true once play has returned Won or Lose.
C8_StopFlagRaisedOnce ==
    /\ [](pc \in {"prompt", "new", "play"} \cup LoopPcs => ~stop_flag)
    /\ [][(stop_flag' # stop_flag)
              => (/\ ~stop_flag /\ stop_flag'
                  /\ pc \in {"win", "lose"}
                  /\ pc' \in {"win_ret", "lose_ret"}
                  /\ tpc' = tpc /\ key' = key)]_vars
    /\ [][stop_flag => stop_flag']_vars
    /\ [](result \in {"Won", "Lose"} => stop_flag)

\* C8 witness: the flag raised on a win while the input thread holds a key
C8_Witness == result = "Won" /\ stop_flag /\ tpc = "flag"

\* C9: when play has returned, the input thread has terminated (was joined).
C9_ThreadJoinedOnReturn == (pc = "returned") => (tpc = "done")

RoundEnded == pc = "exit" /\ tpc # "unspawned"

\* C11: when raw mode, a write or a flush fails, the round ends with an error
\* returned from play (the process is not aborted), and the stop flag has
\* been raised when the round ends.
C11_IoFailureReturnsError ==
    RoundEnded => (result \in {"Won", "Lose", "PlayErr"} /\ stop_flag)

\* what holds of the code: a round ends either by a return of Won or Lose with
\* the flag raised, or by a panic with the flag still false
C11_PanicLeavesFlagFalse ==
    RoundEnded => \/ result \in {"Won", "Lose"} /\ stop_flag
                  \/ result = "panic" /\ ~stop_flag

\* C14: the exit status is 0 after a round that was won or lost and after 'q',
\* and nonzero after an invalid level (Game::new returned Err) or a terminal
\* that could not be initialised.
C14_ExitStatus ==
    (pc = "exit") =>
        /\ (result \in {"Won", "Lose"}) => ExitStatus = 0
        /\ (result = "none") => ExitStatus = 0
        /\ (result = "Err") => ExitStatus # 0
        /\ (result = "panic") => ExitStatus # 0

\* what holds of the code: an invalid level ends the process with status 0
C14_InvalidLevelExitsZero == (pc = "exit" /\ result = "Err") => ExitStatus = 0

\* the input thread has ended while the round is still running: stdin.keys()
\* ended or yielded Err (the stop flag is false in these positions)
InputClosed == tpc = "done" /\ pc \in LoopPcs

\* C12 as claimed: after the input has ended before the round's end, the loop
\* receives no further digit and the round ends with Lose on timeout.
C12_InputClosedThenLose ==
    /\ [][InputClosed => (entered_chars' = entered_chars \/ entered_chars' = << >>)]_vars
    /\ [][InputClosed => pc' # "win"]_vars
    /\ InputClosed ~> (result = "Lose")

\* C12 amended: after the input has ended before the round's end, the loop
\* keeps running (it has an enabled step in every position), nothing is sent
\* any more, the loop receives only the digits still queued in the channel,
\* and once the channel is empty with an incomplete buffer the round ends
\* with Lose.
C12_InputClosedAmended ==
    /\ [](InputClosed => ENABLED LoopStep)
    /\ [][InputClosed => (tpc' = "done" /\ Len(chan') <= Len(chan))]_vars
    /\ [][(InputClosed /\ entered_chars' # entered_chars)
              => \/ entered_chars' = << >>
                 \/ /\ chan # << >>
                    /\ entered_chars' = Append(entered_chars, Head(chan))
                    /\ chan' = Tail(chan)]_vars
    /\ (InputClosed /\ chan = << >> /\ Len(entered_chars) < level) ~> (result = "Lose")

\* C12 witness: the input has ended with two digits entered, and the loop is
\* in its sleep with the channel empty
C12_Witness ==
    InputClosed /\ pc = "sleep" /\ Len(entered_chars) = 2 /\ chan = << >> /\ elapsed > 0

\* C20: the round loop never waits for the input thread or the channel: each
\* of its positions has an enabled step whatever the thread and the channel
\* hold, and a round with an incomplete buffer in which no digit becomes
\* available any more returns Lose, with no fairness assumed of the thread.
C20_LoopNeverBlocks ==
    /\ [](pc \in LoopPcs \cup EndPcs => ENABLED LoopStep)
    /\ (pc \in LoopPcs /\ Len(entered_chars) < level /\ chan = << >>)
          ~> (chan # << >> \/ result = "Lose")

\* C20 witness: Lose returned while the input thread is still in its read, with
\* two digits entered
C20_Witness == result = "Lose" /\ tpc = "keys" /\ Len(entered_chars) = 2

\* C13: the else arm that follows an incorrect complete guess leaves the buffer
\* empty and the clock re-anchored (0 seconds elapsed, so the full budget);
\* the remaining time is computed from the time since the anchor alone, and
\* that time only grows by the clock or is reset by the else arm.
C13_MissResetsClockAndBuffer ==
    /\ [][(pc = "miss" /\ pc' # "miss")
              => (entered_chars' = << >> /\ elapsed' = 0 /\ pc' = "sleep")]_vars
    /\ [][(pc = "loop" /\ pc' # "loop")
              => remaining_time' = (IF elapsed >= 10 THEN 0 ELSE 10 - elapsed)]_vars
    /\ [][(elapsed' # elapsed)
              => \/ pc \in {"play", "miss"} /\ elapsed' = 0
                 \/ pc' = pc /\ elapsed' > elapsed]_vars

\* C13 witness: after an incorrect guess that had used part of the budget, the
\* buffer is empty and the clock is at 0
C13_Witness ==
    /\ pc = "sleep" /\ attempts = 1
    /\ entered_chars = << >> /\ elapsed = 0
    /\ remaining_time > 0 /\ remaining_time < 10

\* C15: the buffer never holds more than level digits; the iteration in which
\* it holds level digits scores it and goes to the win path or clears it, so
\* the buffer is shorter than level at the top of the loop, at the poll of
\* the channel and in the sleep.
C15_BufferAtMostLevel ==
    /\ [](Len(entered_chars) <= level)
    /\ [](pc \in {"loop", "recv", "sleep"} => Len(entered_chars) < level)
    /\ [][(pc = "full" /\ pc' # "full" /\ Len(entered_chars) = level)
              => pc' \in {"win", "miss"}]_vars
    /\ [][(pc = "miss" /\ pc' # "miss") => (entered_chars' = << >> /\ pc' = "sleep")]_vars
    /\ [][(pc = "win" /\ pc' # "win") => pc' = "win_ret"]_vars

\* C15 witness: a full buffer scored as incorrect while a further digit waits
C15_Witness == pc = "miss" /\ Len(entered_chars) = level /\ chan # << >>

\* the decimal digit characters
DigitCharSet == {"0", "1", "2", "3", "4", "5", "6", "7", "8", "9"}

\* a step of the round loop takes the head of the channel to the end of the buffer
TakesHead ==
    /\ pc = "recv"
    /\ chan # << >>
    /\ entered_chars' = Append(entered_chars, Head(chan))
    /\ chan' = Tail(chan)

C17_FlagReadBeforeSend ==
    /\ [][(tpc = "flag" /\ tpc' # "flag")
              => /\ tpc' = (IF stop_flag THEN "done" ELSE "forward")
                 /\ chan' = chan]_vars
    /\ [][(tpc' = "forward" /\ tpc # "forward") => (tpc = "flag" /\ ~stop_flag)]_vars
    /\ [][(Len(chan') > Len(chan)) => (tpc = "forward" /\ tpc' = "keys")]_vars
    /\ [][(tpc = "done") => (tpc' = "done" /\ Len(chan') <= Len(chan))]_vars
    /\ [][(tpc' # tpc) => stop_flag' = stop_flag]_vars

\* C17 witness: the thread holds a digit keystroke and the flag it is about to
\* read is true
C17_Witness == tpc = "flag" /\ stop_flag /\ key[1] = "Char" /\ key[2] \in DigitCharSet

\* C18: the forwarding step appends the key's character to the channel exactly
\* when the key is a character key of '0'..'9' (and the receiver is alive),
\* and changes neither the buffer nor the attempt counter; so the channel and
\* the buffer hold decimal digit characters only.
C18_OnlyDigitsForwarded ==
    /\ [][(tpc = "forward" /\ tpc' # "forward")
              => /\ entered_chars' = entered_chars
                 /\ attempts' = attempts
                 /\ IF key[1] = "Char" /\ key[2] \in DigitCharSet
                    THEN \/ chan' = Append(chan, key[2])
                         \/ pc = "returned" /\ chan' = chan
                    ELSE chan' = chan]_vars
    /\ [](\A i \in 1..Len(chan) : chan[i] \in DigitCharSet)
    /\ [](\A i \in 1..Len(entered_chars) : entered_chars[i] \in DigitCharSet)

\* C18 witness: the thread is about to drop a non-digit character key while the
\* buffer holds a digit
C18_Witness == tpc = "forward" /\ key = << "Char", "a" >> /\ Len(entered_chars) = 1

\* C19: an iteration tests the time first and touches neither the channel nor
\* the buffer in doing so; with 10 or more seconds elapsed it goes to the
\* timeout path, which returns Lose without taking a digit or scoring; with
\* time left it takes at most one digit, then renders, then scores a full
\* buffer in that iteration.
C19_TimeThenDrainThenScore ==
    /\ [][(pc = "loop" /\ pc' # "loop")
              => /\ pc' = (IF elapsed >= 10 THEN "lose" ELSE "recv")
                 /\ entered_chars' = entered_chars
                 /\ chan' = chan]_vars
    /\ [][(pc \in {"lose", "lose_ret"} /\ pc' # pc)
              => /\ pc' = (IF pc = "lose" THEN "lose_ret" ELSE "returned")
                 /\ entered_chars' = entered_chars
                 /\ hits' = hits /\ blows' = blows /\ attempts' = attempts
                 /\ pc = "lose" => chan' = chan
                 /\ pc = "lose_ret" => result' = "Lose"]_vars
    /\ [][(pc = "recv" /\ pc' # "recv")
              => /\ pc' = "render"
                 /\ entered_chars' = entered_chars \/ TakesHead]_vars
    /\ [][(pc = "render" /\ pc' # "render")
              => (pc' = "full" /\ entered_chars' = entered_chars /\ chan' = chan)]_vars
    /\ [][(pc = "full" /\ pc' # "full")
              => pc' \in (IF Len(entered_chars) = level THEN {"win", "miss"} ELSE {"sleep"})]_vars

\* C19 witness: on the timeout path the channel holds the digit that would
\* complete the secret
C19_Witness ==
    /\ pc = "lose_ret"
    /\ digits[1] # 0
    /\ chan # << >>
    /\ GuessDigits(entered_chars \o << Head(chan) >>) = digits

====
